---- MODULE Spec2Model ----
(***************************************************************************)
(* Model of the secure-coding teaching repository.                         *)
(*                                                                         *)
(*   OS Command injection/views.py     index  (popen3 on a shell string)   *)
(*   OS Command injection/solution.py  index  (Popen on an argv list)      *)
(*   SQLi/views.py                     photo album search / photo views    *)
(*                                                                         *)
(* Text is modelled as sequences of one-character strings, so that         *)
(* concatenation, interpolation and substring tests are computed the way   *)
(* the code computes them.                                                 *)
(***************************************************************************)
EXTENDS Integers, Sequences, FiniteSets, TLC

VARIABLES dns, w, photos, views, albums, rl, hits

vars == <<dns, w, photos, views, albums, rl, hits>>
db == <<photos, views, albums, rl, hits>>

(***************************************************************************)
(* Bounds of the model.                                                    *)
(***************************************************************************)
MaxDomainLen == 3
MaxTermLen == 2
MaxWrites == 2
NumWorkers == 2

(***************************************************************************)
(* Generic text helpers.                                                   *)
(***************************************************************************)
StringsOver(chars, n) == UNION {[1..k -> chars] : k \in 0..n}

\* Python str.isspace(): at least one character and all of them whitespace.
IsSpace(s) == Len(s) > 0 /\ \A i \in 1..Len(s) : s[i] = " "

\* Python `needle in hay` on strings.
Contains(hay, needle) ==
    \E i \in 0..(Len(hay) - Len(needle)) :
        \A j \in 1..Len(needle) : hay[i + j] = needle[j]

(***************************************************************************)
(* Python values held in handler locals of the domain-lookup application.  *)
(***************************************************************************)
PyNone == [t |-> "NoneType", v |-> ""]
PyStr(x) == [t |-> "str", v |-> x]
PyBytes(x) == [t |-> "bytes", v |-> x]

(***************************************************************************)
(* Domain-lookup application ("OS Command injection").                     *)
(***************************************************************************)
NSLOOKUP == <<"n", "s", "l", "o", "o", "k", "u", "p">>

AlnumChars == {"a", "8"}
\* The grave accent cannot be written in a string of this notation: the
\* lexeme "BACKTICK" stands for that one character.
Backtick == "BACKTICK"
MetaChars == {";", "|", "&", Backtick}
DomainChars == AlnumChars \cup {".", "-", " "} \cup MetaChars
Domains == StringsOver(DomainChars, MaxDomainLen)

\* What the spawned process can report.
Returncodes == {0, 1, -9}
Stdouts == {"Server: 8.8.8.8", ""}

DomainMaxLen == 253
LabelMaxLen == 63

\* Every label (maximal run without '.') has between 1 and LabelMaxLen characters.
LabelLengthsOK(s) ==
    /\ Len(s) >= 1
    /\ s[1] # "."
    /\ s[Len(s)] # "."
    /\ \A i \in 1..(Len(s) - 1) : ~(s[i] = "." /\ s[i + 1] = ".")
    /\ \A i \in 1..Len(s) :
          (i + LabelMaxLen <= Len(s)) =>
              \E j \in i..(i + LabelMaxLen) : s[j] = "."

\* NameServerInfoForm(request.POST).is_valid(): the restrictive domain grammar.
validateDomain(s) ==
    /\ Len(s) >= 1
    /\ Len(s) <= DomainMaxLen
    /\ \A i \in 1..Len(s) : s[i] \in AlnumChars \cup {".", "-"}
    /\ LabelLengthsOK(s)

\* views.py: `if request.method == 'POST'` ... `if form.is_valid()`.
ViewsShouldSpawnAlways(method, valid) == method = "POST"
ViewsShouldSpawn(method, valid) == method = "POST" /\ valid

\* solution.py: `if request.method == 'POST'` ... `if form.is_valid()`.
SolutionShouldSpawnAlways(method, valid) == method = "POST"
SolutionShouldSpawn(method, valid) == method = "POST" /\ valid

\* views.py: popen3('nslookup ' + domain, 'r') -- one string handed to the shell.
ViewsSink(domain) ==
    [kind |-> "shell", argv |-> <<>>, cmd |-> NSLOOKUP \o <<" ">> \o domain]

\* solution.py: Popen(['nslookup', domain], stdout=PIPE) -- an argument vector.
SolutionSink(domain) ==
    [kind |-> "argv", argv |-> <<NSLOOKUP, domain>>, cmd |-> <<>>]

\* views.py: output = process_output[1].read()
ViewsOutput(rc, stdout) == PyBytes(stdout)

\* solution.py: output = communicate()[0]; if returncode: output = '...'
SolutionOutputUnchecked(rc, stdout) == PyBytes(stdout)
SolutionOutput(rc, stdout) ==
    IF rc # 0 THEN PyStr("Please enter valid domain.") ELSE PyBytes(stdout)

DnsIdle ==
    [pc |-> "idle", handler |-> "none", method |-> "none", domain |-> <<>>,
     valid |-> FALSE, spawned |-> <<>>, rc |-> 0, stdout |-> "",
     output |-> PyNone]

DnsResponse(handler, method, domain, spawn, sink, rc, stdout, out) ==
    [pc |-> "rendered", handler |-> handler, method |-> method,
     domain |-> domain,
     valid |-> (method = "POST" /\ validateDomain(domain)),
     spawned |-> IF spawn THEN <<sink>> ELSE <<>>,
     rc |-> IF spawn THEN rc ELSE 0,
     stdout |-> IF spawn THEN stdout ELSE "",
     output |-> IF spawn THEN out ELSE PyNone]

\* views.py index(request): the vulnerable handler.
ViewsIndex(method, domain, rc, stdout) ==
    /\ dns.pc = "idle"
    /\ dns' = DnsResponse("views", method, domain,
                          ViewsShouldSpawn(method, validateDomain(domain)),
                          ViewsSink(domain), rc, stdout,
                          ViewsOutput(rc, stdout))
    /\ UNCHANGED <<w, db>>

\* solution.py index(request): the fixed handler.
SolutionIndex(method, domain, rc, stdout) ==
    /\ dns.pc = "idle"
    /\ dns' = DnsResponse("solution", method, domain,
                          SolutionShouldSpawn(method, validateDomain(domain)),
                          SolutionSink(domain), rc, stdout,
                          SolutionOutput(rc, stdout))
    /\ UNCHANGED <<w, db>>

\* return render(...): the response is built and the request's locals are gone.
DnsRender ==
    /\ dns.pc = "rendered"
    /\ dns' = DnsIdle
    /\ UNCHANGED <<w, db>>

(***************************************************************************)
(* Photo album application ("SQLi").                                       *)
(*                                                                         *)
(* Values that reach a handler from a request or a parsed document.        *)
(***************************************************************************)
YNone == [t |-> "NoneType", s |-> <<>>, n |-> 0]
YStr(s) == [t |-> "str", s |-> s, n |-> 0]
YInt(n) == [t |-> "int", s |-> <<>>, n |-> n]
YList(n) == [t |-> "list", s |-> <<>>, n |-> n]
YBool(b) == [t |-> "bool", s |-> <<>>, n |-> IF b THEN 1 ELSE 0]

\* Python truth value of `v` (None, '', 0 and [] are false).
Truthy(v) ==
    CASE v.t = "NoneType" -> FALSE
      [] v.t = "str" -> Len(v.s) > 0
      [] OTHER -> v.n # 0

\* `v and not v.isspace()` raises AttributeError when v is true and no str.
NonBlankRaises(v) == Truthy(v) /\ v.t # "str"

(***************************************************************************)
(* The database.  `albums` holds the Album rows as the number of rows with *)
(* each (name, owner), `photos` the Photo rows (the primary key is the     *)
(* position), `views` their views column.  At the start alice has her home *)
(* album with one public and one private photo; bob has signed up and owns *)
(* nothing yet.                                                            *)
(***************************************************************************)
Users == {"alice", "bob"}
Anonymous == "anonymous"
Requesters == Users \cup {Anonymous}

TermChars == {"x", "\"", " "}
Terms == StringsOver(TermChars, MaxTermLen)

\* The home album is the one named after the user's profile id.
HomeName == "home"
HomeAlbum(user) == [name |-> HomeName, owner |-> user]
AlbumNames == {"trip"}
AlbumKwargs == {HomeName} \cup AlbumNames

AlbumKeys == [name : AlbumKwargs, owner : Users]
SeedAlbums == [k \in AlbumKeys |-> IF k = HomeAlbum("alice") THEN 1 ELSE 0]

\* Album.objects.filter(name=name, owner=user).count()
AlbumRows(name, user) == albums[[name |-> name, owner |-> user]]

\* album.save() of a new instance: one more row, whatever rows there are.
InsertAlbum(name, user) ==
    [albums EXCEPT ![[name |-> name, owner |-> user]] = @ + 1]

\* Album.objects.get(name=name, owner=user), as get_object_or_404 and
\* get_or_create call it too: the row, or the exception raised.
GetAlbum(name, user) ==
    CASE AlbumRows(name, user) = 0 -> "DoesNotExist"
      [] AlbumRows(name, user) = 1 -> "found"
      [] OTHER -> "MultipleObjectsReturned"

RECURSIVE SumOver(_, _)
SumOver(f, S) ==
    IF S = {} THEN 0
    ELSE LET k == CHOOSE x \in S : TRUE IN f[k] + SumOver(f, S \ {k})
SeedPhotos ==
    <<[owner |-> "alice", is_public |-> TRUE, name |-> <<"x">>,
       description |-> <<"x">>, age |-> 1, album |-> HomeName],
      [owner |-> "alice", is_public |-> FALSE, name |-> <<"x", "\"">>,
       description |-> <<"x">>, age |-> 200, album |-> HomeName]>>
InitViews == [ph \in DOMAIN SeedPhotos |-> 0]
\* The views column of a row when it was inserted (the column's default is 0).
InitialViews(ph) == IF ph \in DOMAIN InitViews THEN InitViews[ph] ELSE 0

PhotoIds == DOMAIN photos

RECURSIVE SumSeq(_)
SumSeq(s) == IF Len(s) = 0 THEN 0 ELSE s[1] + SumSeq(Tail(s))

\* Rows written since the start, and requests that are about to write one.
DbWrites ==
    (SumOver(albums, AlbumKeys) - SumOver(SeedAlbums, AlbumKeys))
    + (Len(photos) - Len(SeedPhotos))
    + SumSeq(hits)
InFlightWriters ==
    Cardinality({q \in DOMAIN w :
                   /\ w[q].pc \in {"fetched", "loaded"}
                   /\ w[q].req.user # w[q].req.username})
CanWrite == DbWrites + InFlightWriters < MaxWrites

(***************************************************************************)
(* Queries handed to the storage layer: the SQL text as a sequence of      *)
(* lexemes (template pieces, and the characters of anything interpolated), *)
(* and the bound parameters.                                               *)
(***************************************************************************)
Query(api, text, params) == [api |-> api, text |-> text, params |-> params]

\* Album.objects.get_or_create(name=user.userprofile.id, owner=user)
GetOrCreateHomeAlbum(user) ==
    Query("get_or_create",
          <<"albums_album WHERE name = ? AND owner = ?">>,
          <<YStr(<<HomeName>>), YStr(<<user>>)>>)

\* 'SELECT * FROM albums_photo WHERE name LIKE "%%%s%%" AND is_public = 1' % query
RawHead == <<"SELECT * FROM albums_photo WHERE name LIKE ", "\"">>
RawTail == <<" AND is_public = 1">>
RawSearchSQL(term) ==
    Query("raw", RawHead \o <<"%">> \o term \o <<"%", "\"">> \o RawTail, <<>>)

\* The [:100] of the XML and YAML searches.
SliceLimit == 100

\* The ORM's filter(...): the lookups decide the text, the values travel as
\* parameters.  `sliced` is the [:SliceLimit] the XML and YAML searches add.
IcontainsParam(term) == YStr(<<"%">> \o term \o <<"%">>)
OrmFilter(name, description, hours, sliced) ==
    Query("filter",
          <<"SELECT * FROM albums_photo WHERE ">>
          \o (IF name.t = "str" THEN <<"name LIKE ? ESCAPE '\\'", " AND ">> ELSE <<>>)
          \o (IF description.t = "str"
              THEN <<"description LIKE ? ESCAPE '\\'", " AND ">> ELSE <<>>)
          \o (IF hours # 0 THEN <<"uploaded_at > ?", " AND ">> ELSE <<>>)
          \o <<"is_public = ?">>
          \o (IF sliced THEN <<" LIMIT ?">> ELSE <<>>),
          (IF name.t = "str" THEN <<IcontainsParam(name.s)>> ELSE <<>>)
          \o (IF description.t = "str"
              THEN <<IcontainsParam(description.s)>> ELSE <<>>)
          \o (IF hours # 0 THEN <<YInt(hours)>> ELSE <<>>)
          \o <<YBool(TRUE)>>
          \o (IF sliced THEN <<YInt(SliceLimit)>> ELSE <<>>))

\* The first SliceLimit rows, in primary-key order.
Slice(rows) ==
    {ph \in rows : Cardinality({other \in rows : other < ph}) < SliceLimit}

\* Rows the ORM filter selects (icontains is a substring test on the value).
OrmRows(name, description, hours, sliced) ==
    LET rows == {ph \in PhotoIds :
                   /\ name.t = "str" => Contains(photos[ph].name, name.s)
                   /\ description.t = "str" =>
                          Contains(photos[ph].description, description.s)
                   /\ hours # 0 => photos[ph].age < hours
                   /\ photos[ph].is_public}
    IN IF sliced THEN Slice(rows) ELSE rows

(***************************************************************************)
(* The backend's reading of the raw statement.  A string literal opened by *)
(* '"' runs to the first '"' that is not doubled ('""' is an escaped       *)
(* quote).                                                                 *)
(***************************************************************************)
RECURSIVE ClosingQuote(_, _)
ClosingQuote(text, i) ==
    IF i > Len(text) THEN 0
    ELSE IF text[i] = "\""
         THEN IF i < Len(text) /\ text[i + 1] = "\""
              THEN ClosingQuote(text, i + 2)
              ELSE i
         ELSE ClosingQuote(text, i + 1)

RECURSIVE Unescape(_)
Unescape(s) ==
    IF Len(s) = 0 THEN <<>>
    ELSE IF s[1] = "\"" /\ Len(s) >= 2
         THEN <<"\"">> \o Unescape(SubSeq(s, 3, Len(s)))
         ELSE <<s[1]>> \o Unescape(Tail(s))

\* SQL LIKE: '%' matches any run of characters, '_' any one character.
RECURSIVE LikeMatch(_, _)
LikeMatch(pat, s) ==
    IF Len(pat) = 0 THEN Len(s) = 0
    ELSE IF pat[1] = "%"
         THEN LikeMatch(Tail(pat), s) \/ (Len(s) > 0 /\ LikeMatch(pat, Tail(s)))
         ELSE /\ Len(s) > 0
              /\ (pat[1] = "_" \/ pat[1] = s[1])
              /\ LikeMatch(Tail(pat), Tail(s))

\* Photo.objects.raw(text), evaluated when the template iterates it.  While
\* the literal closes where the template closes it, the statement is the
\* template's: name LIKE <literal> AND is_public = 1.  Otherwise the term has
\* rewritten the statement and the backend decides what it means: it rejects
\* it, or selects whatever rows the rewritten statement spells.
RawOutcomes(text) ==
    LET open == Len(RawHead) + 1
        close == ClosingQuote(text, open)
    IN IF close # 0 /\ SubSeq(text, close + 1, Len(text)) = RawTail
       THEN {[error |-> FALSE,
              rows |-> {ph \in PhotoIds :
                          /\ LikeMatch(Unescape(SubSeq(text, open, close - 1)),
                                       photos[ph].name)
                          /\ photos[ph].is_public}]}
       ELSE {[error |-> TRUE, rows |-> {}]}
            \cup {[error |-> FALSE, rows |-> R] : R \in SUBSET PhotoIds}

(***************************************************************************)
(* Requests, documents and the per-request state of a worker.              *)
(***************************************************************************)
NoXml ==
    [malformed |-> "no", doctype |-> FALSE, entity |-> FALSE,
     external |-> FALSE, has_query |-> FALSE, text |-> YNone]
NoYaml == [kind |-> "none", query |-> YNone]
NoReq ==
    [user |-> Anonymous, ip |-> "", q |-> YNone, name |-> YNone,
     description |-> YNone, uploaded_at |-> YNone, xml |-> NoXml,
     yaml |-> NoYaml, username |-> "", pk |-> 0, album |-> "",
     is_public |-> FALSE]
NoParser ==
    [made |-> FALSE, forbid_dtd |-> FALSE, forbid_entities |-> FALSE,
     forbid_external |-> FALSE]
NoSnap == [id |-> 0, views |-> 0]

Workers == 1..NumWorkers

Idle ==
    [pc |-> "idle", handler |-> "none", req |-> NoReq, status |-> 0,
     body |-> "none", photos |-> {}, queries |-> <<>>, parser |-> NoParser,
     snap |-> NoSnap, limited |-> FALSE]

Done(handler, req, status, body, rows, queries, parser) ==
    [pc |-> "done", handler |-> handler, req |-> req, status |-> status,
     body |-> body, photos |-> rows, queries |-> queries,
     parser |-> parser, snap |-> NoSnap, limited |-> FALSE]

OptTerms == {YNone} \cup {YStr(t) : t \in Terms}

\* `if query and not query.isspace()` on a value that is a str or None.
NonBlankNoSpaceCheck(v) == Truthy(v) /\ v.t = "str"
IsNonBlank(v) == Truthy(v) /\ v.t = "str" /\ ~IsSpace(v.s)

\* LoginRequiredMixin: an anonymous requester is sent to the login page.
LoginRedirect(handler, req) ==
    Done(handler, req, 302, "login", {}, <<>>, NoParser)

(***************************************************************************)
(* HomeTemplateView.get_context_data                                       *)
(***************************************************************************)
\* get_or_create: the row is inserted when there is none; with one row it
\* is returned; with several, get raises MultipleObjectsReturned and nothing
\* catches it.
GetOrCreateHome(user) ==
    IF GetAlbum(HomeName, user) = "DoesNotExist"
    THEN InsertAlbum(HomeName, user)
    ELSE albums

PhotosIn(user, album) ==
    {ph \in PhotoIds : photos[ph].owner = user /\ photos[ph].album = album}

HomeTemplateView(p, user) ==
    LET req == [NoReq EXCEPT !.user = user]
    IN /\ w[p].pc = "idle"
       /\ IF user # Anonymous
          THEN /\ GetAlbum(HomeName, user) = "DoesNotExist" => CanWrite
               /\ albums' = GetOrCreateHome(user)
               /\ w' = [w EXCEPT ![p] =
                          IF GetAlbum(HomeName, user) = "MultipleObjectsReturned"
                          THEN Done("home", req, 500, "exception", {},
                                    <<GetOrCreateHomeAlbum(user)>>, NoParser)
                          ELSE Done("home", req, 200, "html",
                                    PhotosIn(user, HomeName),
                                    <<GetOrCreateHomeAlbum(user)>>, NoParser)]
          ELSE /\ albums' = albums
               /\ w' = [w EXCEPT ![p] =
                          Done("home", req, 200, "html", {}, <<>>, NoParser)]
       /\ UNCHANGED <<dns, photos, views, rl, hits>>

(***************************************************************************)
(* AlbumTemplateView.get_context_data                                      *)
(***************************************************************************)
AlbumTemplateView(p, user, album) ==
    LET req == [NoReq EXCEPT !.user = user, !.album = album]
    IN /\ w[p].pc = "idle"
       /\ w' = [w EXCEPT ![p] =
                  IF user = Anonymous
                  THEN LoginRedirect("album", req)
                  ELSE IF GetAlbum(album, user) = "DoesNotExist"
                  THEN Done("album", req, 404, "notfound", {}, <<>>, NoParser)
                  ELSE IF GetAlbum(album, user) = "MultipleObjectsReturned"
                  THEN Done("album", req, 500, "exception", {}, <<>>, NoParser)
                  ELSE Done("album", req, 200, "html", PhotosIn(user, album),
                            <<>>, NoParser)]
       /\ UNCHANGED <<dns, db>>

(***************************************************************************)
(* CreateAlbumFormView.form_valid                                          *)
(***************************************************************************)
\* album.owner = user; album.save(): a row is inserted whether or not the
\* user has an album of that name already.
CreateAlbumFormView(p, user, name) ==
    LET req == [NoReq EXCEPT !.user = user, !.album = name]
    IN /\ w[p].pc = "idle"
       /\ IF user = Anonymous
          THEN /\ albums' = albums
               /\ w' = [w EXCEPT ![p] = LoginRedirect("create", req)]
          ELSE /\ CanWrite
               /\ albums' = InsertAlbum(name, user)
               /\ w' = [w EXCEPT ![p] =
                          Done("create", req, 302, "redirect", {}, <<>>,
                               NoParser)]
       /\ UNCHANGED <<dns, photos, views, rl, hits>>

(***************************************************************************)
(* UploadPhotoFormView.form_valid                                          *)
(***************************************************************************)
\* Album.objects.get raises DoesNotExist for an album the user does not
\* have and MultipleObjectsReturned for one the user has twice, and nothing
\* catches either.
\* The name of the uploaded file, which names a photo uploaded without one.
UploadFileName == <<"x", "x">>
UploadNames == {YStr(<<>>), YStr(<<"x">>)}

UploadPhotoFormView(p, user, album, name, is_public) ==
    LET req == [NoReq EXCEPT !.user = user, !.album = album, !.name = name,
                             !.is_public = is_public]
        row == [owner |-> user, is_public |-> is_public,
                name |-> IF Truthy(name) THEN name.s ELSE UploadFileName,
                description |-> <<>>, age |-> 0, album |-> album]
    IN /\ w[p].pc = "idle"
       /\ IF user = Anonymous
          THEN /\ UNCHANGED <<photos, views, hits>>
               /\ w' = [w EXCEPT ![p] = LoginRedirect("upload", req)]
          ELSE IF GetAlbum(album, user) # "found"
          THEN /\ UNCHANGED <<photos, views, hits>>
               /\ w' = [w EXCEPT ![p] =
                          Done("upload", req, 500, "exception", {}, <<>>,
                               NoParser)]
          ELSE /\ CanWrite
               /\ photos' = Append(photos, row)
               /\ views' = Append(views, 0)
               /\ hits' = Append(hits, 0)
               /\ w' = [w EXCEPT ![p] =
                          Done("upload", req, 302, "redirect", {}, <<>>,
                               NoParser)]
       /\ UNCHANGED <<dns, albums, rl>>

(***************************************************************************)
(* SearchPhotosFormView.get_context_data                                   *)
(***************************************************************************)
\* The requests tried: every term from a visitor who is not logged in, and
\* an absent, a blank, a plain and a quoting term from each user.
SearchRequests ==
    [user : {Anonymous}, q : OptTerms]
    \cup [user : Users,
          q : {YNone, YStr(<<" ">>), YStr(<<"x">>), YStr(<<"\"">>)}]

SearchPhotosFormView(p, user, q) ==
    LET req == [NoReq EXCEPT !.user = user, !.q = q]
        home == IF user # Anonymous THEN <<GetOrCreateHomeAlbum(user)>> ELSE <<>>
        raw == RawSearchSQL(q.s)
    IN /\ w[p].pc = "idle"
       /\ (user # Anonymous /\ GetAlbum(HomeName, user) = "DoesNotExist")
             => CanWrite
       /\ albums' = IF user # Anonymous THEN GetOrCreateHome(user) ELSE albums
       /\ IF user # Anonymous
             /\ GetAlbum(HomeName, user) = "MultipleObjectsReturned"
          THEN w' = [w EXCEPT ![p] =
                       Done("search", req, 500, "exception", {}, home, NoParser)]
          ELSE IF IsNonBlank(q)
          THEN \E outcome \in RawOutcomes(raw.text) :
                  w' = [w EXCEPT ![p] =
                          Done("search", req,
                               IF outcome.error THEN 500 ELSE 200,
                               IF outcome.error THEN "exception" ELSE "html",
                               outcome.rows, home \o <<raw>>, NoParser)]
          ELSE w' = [w EXCEPT ![p] =
                       Done("search", req, 200, "html", {}, home, NoParser)]
       /\ UNCHANGED <<dns, photos, views, rl, hits>>

(***************************************************************************)
(* AdvancedSearchPhotosFormView                                            *)
(***************************************************************************)
\* get_upload_period: the period as an age in hours, 0 for None.
get_upload_period(uploaded_at) ==
    CASE uploaded_at = <<"hours">> -> 24
      [] uploaded_at = <<"week">> -> 7 * 24
      [] uploaded_at = <<"month">> -> 30 * 24
      [] OTHER -> 0

UploadedAtValues ==
    {YNone, YStr(<<>>), YStr(<<" ">>), YStr(<<"hours">>), YStr(<<"week">>),
     YStr(<<"month">>), YStr(<<"year">>)}
DescriptionValues == {YNone, YStr(<<" ">>), YStr(<<"x">>), YStr(<<"\"">>)}

\* The query strings tried: every term as the name alone, and a few names
\* with every description and period.
AdvancedRequests ==
    {[name |-> n, description |-> YNone, uploaded_at |-> YNone] : n \in OptTerms}
    \cup [name : {YNone, YStr(<<"x">>)},
          description : DescriptionValues,
          uploaded_at : UploadedAtValues]

AdvancedSearchPhotosFormView(p, name, description, uploaded_at) ==
    LET req == [NoReq EXCEPT !.name = name, !.description = description,
                             !.uploaded_at = uploaded_at]
        n == IF IsNonBlank(name) THEN name ELSE YNone
        d == IF IsNonBlank(description) THEN description ELSE YNone
        hours == IF IsNonBlank(uploaded_at)
                 THEN get_upload_period(uploaded_at.s) ELSE 0
        empty == n = YNone /\ d = YNone /\ hours = 0
    IN /\ w[p].pc = "idle"
       /\ w' = [w EXCEPT ![p] =
                  IF empty
                  THEN Done("advanced", req, 200, "html", {}, <<>>, NoParser)
                  ELSE Done("advanced", req, 200, "html",
                            OrmRows(n, d, hours, FALSE),
                            <<OrmFilter(n, d, hours, FALSE)>>, NoParser)]
       /\ UNCHANGED <<dns, db>>

(***************************************************************************)
(* @ratelimit(key='ip', rate='1/s', method=['POST'], block=True) on the    *)
(* XML and YAML searches: `rl` holds the (view, address) keys that have a  *)
(* request counted in their current one-second window.  A further request  *)
(* under such a key is refused with 403 before the view body runs.         *)
(***************************************************************************)
Ips == {"10.0.0.1"}
RateLimited(view, ip) == <<view, ip>> \in rl
Forbidden(view, req) ==
    [Done(view, req, 403, "forbidden", {}, <<>>, NoParser)
        EXCEPT !.limited = TRUE]

\* The window of a key runs out.
WindowExpires(view, ip) ==
    /\ <<view, ip>> \in rl
    /\ rl' = rl \ {<<view, ip>>}
    /\ UNCHANGED <<dns, w, photos, views, albums, hits>>

(***************************************************************************)
(* XMLSearchPhotosAPIView.post                                             *)
(*                                                                         *)
(* A document is described by what the parser meets in it: a DOCTYPE, an   *)
(* entity declaration, a reference to an external entity, a syntax error   *)
(* ("early": before any DOCTYPE, "late": after the prolog), and the        *)
(* <query> child of the root.  `external` is an entity declared with a     *)
(* SYSTEM or PUBLIC identifier; a DOCTYPE that merely names an external    *)
(* subset has `doctype` alone, as nothing is fetched for it.               *)
(***************************************************************************)
XmlFlagged ==
    {x \in [malformed : {"no", "early", "late"}, doctype : BOOLEAN,
            entity : BOOLEAN, external : BOOLEAN, has_query : {TRUE},
            text : {YStr(<<"x">>)}] :
        /\ x.entity => (x.doctype \/ x.malformed # "no")
        /\ x.external => (x.doctype /\ x.entity)
        /\ ~x.doctype => x.malformed # "early"}
XmlPayloads ==
    XmlFlagged
    \cup {[NoXml EXCEPT !.has_query = TRUE, !.text = t] : t \in OptTerms}
    \cup {NoXml}

\* etree.DefusedXMLParser(forbid_dtd=True, forbid_entities=True, forbid_external=True)
XMLParserConfigDtdAllowed ==
    [made |-> TRUE, forbid_dtd |-> FALSE, forbid_entities |-> TRUE,
     forbid_external |-> TRUE]
XMLParserConfig ==
    [made |-> TRUE, forbid_dtd |-> TRUE, forbid_entities |-> TRUE,
     forbid_external |-> TRUE]

\* etree.parse(request, parser=parser): the exception raised, or "none".
\* The parser stops at the first thing it cannot accept, in document order.
\* The three Forbidden exceptions derive from ValueError.
ParseXML(parser, x) ==
    CASE x.malformed = "early" -> "ParseError"
      [] x.doctype /\ parser.forbid_dtd -> "DTDForbidden"
      [] x.doctype /\ x.entity /\ parser.forbid_entities -> "EntitiesForbidden"
      [] x.doctype /\ x.entity /\ x.external /\ parser.forbid_external ->
             "ExternalReferenceForbidden"
      [] x.malformed # "no" -> "ParseError"
      [] OTHER -> "none"

XMLSearchPhotosAPIView(p, ip, x) ==
    LET req == [NoReq EXCEPT !.ip = ip, !.xml = x]
        parser == XMLParserConfig
        exc == ParseXML(parser, x)
    IN /\ w[p].pc = "idle"
       /\ rl' = rl \cup {<<"xml", ip>>}
       /\ w' = [w EXCEPT ![p] =
                  IF RateLimited("xml", ip)
                  THEN Forbidden("xml", req)
                  ELSE IF exc # "none"
                  THEN Done("xml", req, 400, "error", {}, <<>>, parser)
                  ELSE IF ~x.has_query
                  THEN Done("xml", req, 400, "error", {}, <<>>, parser)
                  ELSE IF IsNonBlank(x.text)
                  THEN Done("xml", req, 200, "photos",
                            OrmRows(x.text, YNone, 0, TRUE),
                            <<OrmFilter(x.text, YNone, 0, TRUE)>>, parser)
                  ELSE Done("xml", req, 200, "photos", {}, <<>>, parser)]
       /\ UNCHANGED <<dns, photos, views, albums, hits>>

(***************************************************************************)
(* YAMLSearchPhotosAPIView.post                                            *)
(***************************************************************************)
YamlValues == OptTerms \cup {YInt(0), YInt(5), YList(0), YList(1)}
YamlPayloads ==
    {[kind |-> k, query |-> YNone] :
        k \in {"malformed", "tagged", "empty", "scalar", "sequence"}}
    \cup {[kind |-> "mapping", query |-> v] : v \in YamlValues}

\* yaml.safe_load(request).get('query'): the exception raised, or "none".
YamlLoadGet(y) ==
    CASE y.kind = "malformed" -> "YAMLError"
      [] y.kind = "tagged" -> "ConstructorError"
      [] y.kind \in {"empty", "scalar", "sequence"} -> "AttributeError"
      [] OTHER -> "none"

YAMLSearchPhotosAPIView(p, ip, y) ==
    LET req == [NoReq EXCEPT !.ip = ip, !.yaml = y]
        exc == YamlLoadGet(y)
    IN /\ w[p].pc = "idle"
       /\ rl' = rl \cup {<<"yaml", ip>>}
       /\ w' = [w EXCEPT ![p] =
                  IF RateLimited("yaml", ip)
                  THEN Forbidden("yaml", req)
                  ELSE IF exc = "AttributeError"
                  THEN Done("yaml", req, 400, "error", {}, <<>>, NoParser)
                  ELSE IF exc # "none"
                  THEN Done("yaml", req, 500, "exception", {}, <<>>, NoParser)
                  ELSE IF NonBlankRaises(y.query)
                  THEN Done("yaml", req, 500, "exception", {}, <<>>, NoParser)
                  ELSE IF IsNonBlank(y.query)
                  THEN Done("yaml", req, 200, "photos",
                            OrmRows(y.query, YNone, 0, TRUE),
                            <<OrmFilter(y.query, YNone, 0, TRUE)>>, NoParser)
                  ELSE Done("yaml", req, 200, "photos", {}, <<>>, NoParser)]
       /\ UNCHANGED <<dns, photos, views, albums, hits>>

(***************************************************************************)
(* PhotoTemplateView: three database accesses, which other requests may    *)
(* interleave with.                                                        *)
(***************************************************************************)
Usernames == Users \cup {"nobody"}
Pks == 0..(Len(SeedPhotos) + MaxWrites)

\* get_object_or_404(Photo, pk=pk, owner=owner)
OwnedBy(pk, username) == pk \in PhotoIds /\ photos[pk].owner = username

\* get_object_or_404(Photo, pk=pk, owner=owner, is_public=True)
VisibleToOthers(pk) == pk \in PhotoIds /\ photos[pk].is_public

\* owner = get_object_or_404(User, ...); photo = get_object_or_404(Photo, ...)
PhotoTemplateLookup(p, user, username, pk) ==
    LET req == [NoReq EXCEPT !.user = user, !.username = username, !.pk = pk]
    IN /\ w[p].pc = "idle"
       /\ w' = [w EXCEPT ![p] =
                  IF username \notin Users \/ ~OwnedBy(pk, username)
                  THEN Done("photo", req, 404, "notfound", {}, <<>>, NoParser)
                  ELSE [Idle EXCEPT !.pc = "fetched", !.handler = "photo",
                                    !.req = req,
                                    !.snap = [id |-> pk, views |-> views[pk]]]]
       /\ (OwnedBy(pk, username) /\ user # username) => CanWrite
       /\ UNCHANGED <<dns, db>>

\* if self.request.user.pk != owner.pk: photo = get_object_or_404(..., is_public=True)
PhotoTemplateCheck(p) ==
    /\ w[p].pc = "fetched"
    /\ w' = [w EXCEPT ![p] =
               IF w[p].req.user = w[p].req.username
               THEN Done("photo", w[p].req, 200, "html", {w[p].snap.id},
                         <<>>, NoParser)
               ELSE IF ~VisibleToOthers(w[p].snap.id)
               THEN Done("photo", w[p].req, 404, "notfound", {}, <<>>, NoParser)
               ELSE [w[p] EXCEPT !.pc = "loaded",
                                 !.snap = [id |-> w[p].snap.id,
                                           views |-> views[w[p].snap.id]]]]
    /\ UNCHANGED <<dns, db>>

\* set_views: photo.views += 1; photo.save() -- the value read earlier, plus
\* one, is written back.
SavedViews(snap) == snap.views + 1

PhotoTemplateSetViews(p) ==
    /\ w[p].pc = "loaded"
    /\ views' = [views EXCEPT ![w[p].snap.id] = SavedViews(w[p].snap)]
    /\ hits' = [hits EXCEPT ![w[p].snap.id] = @ + 1]
    /\ w' = [w EXCEPT ![p] =
               Done("photo", w[p].req, 200, "html", {w[p].snap.id}, <<>>,
                    NoParser)]
    /\ UNCHANGED <<dns, photos, albums, rl>>

(***************************************************************************)
(* PhotoLinkView, PublicPhotoLinkView, UserPhotosTemplateView              *)
(***************************************************************************)
PhotoLinkView(p, user, pk) ==
    LET req == [NoReq EXCEPT !.user = user, !.pk = pk]
    IN /\ w[p].pc = "idle"
       /\ w' = [w EXCEPT ![p] =
                  IF user = Anonymous
                  THEN LoginRedirect("link", req)
                  ELSE IF ~OwnedBy(pk, user)
                  THEN Done("link", req, 404, "notfound", {}, <<>>, NoParser)
                  ELSE Done("link", req, 200, "file", {pk}, <<>>, NoParser)]
       /\ UNCHANGED <<dns, db>>

PublicPhotoLinkView(p, user, pk) ==
    LET req == [NoReq EXCEPT !.user = user, !.pk = pk]
    IN /\ w[p].pc = "idle"
       /\ w' = [w EXCEPT ![p] =
                  IF ~VisibleToOthers(pk)
                  THEN Done("publink", req, 404, "notfound", {}, <<>>, NoParser)
                  ELSE Done("publink", req, 200, "file", {pk}, <<>>, NoParser)]
       /\ UNCHANGED <<dns, db>>

\* photos = Photo.objects.filter(owner=owner); others see .filter(is_public=True)
UserPhotosUnfiltered(user, username) ==
    {ph \in PhotoIds : photos[ph].owner = username}
UserPhotos(user, username) ==
    {ph \in PhotoIds :
        /\ photos[ph].owner = username
        /\ user # username => photos[ph].is_public}

UserPhotosTemplateView(p, user, username) ==
    LET req == [NoReq EXCEPT !.user = user, !.username = username]
    IN /\ w[p].pc = "idle"
       /\ w' = [w EXCEPT ![p] =
                  IF username \notin Users
                  THEN Done("userphotos", req, 404, "notfound", {}, <<>>,
                            NoParser)
                  ELSE Done("userphotos", req, 200, "html",
                            UserPhotos(user, username), <<>>, NoParser)]
       /\ UNCHANGED <<dns, db>>

\* The response has been sent; the worker takes the next request.
FinishRequest(p) ==
    /\ w[p].pc = "done"
    /\ w' = [w EXCEPT ![p] = Idle]
    /\ UNCHANGED <<dns, db>>

(***************************************************************************)
(* Specifications.                                                         *)
(***************************************************************************)
Init ==
    /\ dns = DnsIdle
    /\ w = [p \in Workers |-> Idle]
    /\ photos = SeedPhotos
    /\ views = InitViews
    /\ albums = SeedAlbums
    /\ rl = {}
    /\ hits = [ph \in DOMAIN SeedPhotos |-> 0]

\* The domain-lookup application: both handlers, one request at a time.
NextDNS ==
    \/ \E domain \in Domains, rc \in Returncodes, stdout \in Stdouts :
          ViewsIndex("POST", domain, rc, stdout)
    \/ ViewsIndex("GET", <<>>, 0, "")
    \/ \E domain \in Domains, rc \in Returncodes, stdout \in Stdouts :
          SolutionIndex("POST", domain, rc, stdout)
    \/ SolutionIndex("GET", <<>>, 0, "")
    \/ DnsRender

SpecDNS == Init /\ [][NextDNS]_vars

\* The photo album application served by one worker.
Next ==
    \/ \E user \in Requesters : HomeTemplateView(1, user)
    \/ \E user \in Requesters, album \in AlbumKwargs :
          AlbumTemplateView(1, user, album)
    \/ \E user \in Requesters, name \in AlbumKwargs :
          CreateAlbumFormView(1, user, name)
    \/ \E user \in Requesters, album \in AlbumKwargs, name \in UploadNames,
          is_public \in BOOLEAN :
          UploadPhotoFormView(1, user, album, name, is_public)
    \/ \E r \in SearchRequests : SearchPhotosFormView(1, r.user, r.q)
    \/ \E r \in AdvancedRequests :
          AdvancedSearchPhotosFormView(1, r.name, r.description, r.uploaded_at)
    \/ \E ip \in Ips, x \in XmlPayloads : XMLSearchPhotosAPIView(1, ip, x)
    \/ \E ip \in Ips, y \in YamlPayloads : YAMLSearchPhotosAPIView(1, ip, y)
    \/ \E view \in {"xml", "yaml"}, ip \in Ips : WindowExpires(view, ip)
    \/ \E user \in Requesters, username \in Usernames, pk \in Pks :
          PhotoTemplateLookup(1, user, username, pk)
    \/ PhotoTemplateCheck(1)
    \/ PhotoTemplateSetViews(1)
    \/ \E user \in Requesters, pk \in Pks : PhotoLinkView(1, user, pk)
    \/ \E user \in Requesters, pk \in Pks : PublicPhotoLinkView(1, user, pk)
    \/ \E user \in Requesters, username \in Usernames :
          UserPhotosTemplateView(1, user, username)
    \/ FinishRequest(1)

Spec == Init /\ [][Next]_vars

\* PhotoTemplateView requests served by several workers at once.
NextConcurrent ==
    \E p \in Workers :
        \/ \E user \in Requesters, username \in Usernames, pk \in Pks :
              PhotoTemplateLookup(p, user, username, pk)
        \/ PhotoTemplateCheck(p)
        \/ PhotoTemplateSetViews(p)
        \/ FinishRequest(p)

SpecConcurrent == Init /\ [][NextConcurrent]_vars

(***************************************************************************)
(* Properties of the domain-lookup application (checked under SpecDNS).    *)
(***************************************************************************)
FixedMessage == PyStr("Please enter valid domain.")

\* C1: in both handlers, every process is spawned with the argument vector
\* ['nslookup', domain]; the domain never travels inside a shell string.
C1_ArgvOnly ==
    \A i \in 1..Len(dns.spawned) :
        /\ dns.spawned[i].kind = "argv"
        /\ dns.spawned[i].argv = <<NSLOOKUP, dns.domain>>

\* C2: a process is spawned only for a POST whose form validated; a rejected
\* form or another method spawns nothing and renders output None; a
\* validated POST spawns exactly one process.
C2_SpawnOnlyOnValidPost ==
    dns.pc = "rendered" =>
        LET accepted == dns.method = "POST" /\ validateDomain(dns.domain)
        IN /\ Len(dns.spawned) > 0 => accepted
           /\ ~accepted => (Len(dns.spawned) = 0 /\ dns.output = PyNone)
           /\ accepted => Len(dns.spawned) = 1

C2_Witness ==
    /\ dns.pc = "rendered"
    /\ dns.handler = "solution"
    /\ dns.method = "POST"
    /\ dns.domain = <<"8", ".", "8">>
    /\ Len(dns.spawned) = 1

\* The inputs C3 speaks of: ';', '|', '&&', a backtick, or further tokens
\* after whitespace.
HasInjectionShape(s) ==
    \/ \E i \in 1..Len(s) : s[i] \in {";", "|", Backtick}
    \/ \E i \in 1..(Len(s) - 1) : s[i] = "&" /\ s[i + 1] = "&"
    \/ \E i, j, k \in 1..Len(s) :
          i < j /\ j < k /\ s[i] # " " /\ s[j] = " " /\ s[k] # " "

\* C3: a POSTed domain of injection shape is rejected by both handlers: no
\* process is spawned and nothing is rendered as output.
C3_InjectionRejected ==
    (dns.pc = "rendered" /\ dns.method = "POST" /\ HasInjectionShape(dns.domain))
        => (Len(dns.spawned) = 0 /\ dns.output = PyNone)

C3_Witness ==
    /\ dns.pc = "rendered"
    /\ dns.handler = "views"
    /\ dns.method = "POST"
    /\ dns.domain = <<"8", ";", "a">>
    /\ dns.spawned = <<>>

\* C7: in solution.py, after a validated POST the output is the process's
\* standard output exactly when it exited with 0, and the fixed message
\* exactly when it did not.
C7_OutputFollowsExitCode ==
    (dns.pc = "rendered" /\ dns.handler = "solution" /\ Len(dns.spawned) = 1)
        => /\ (dns.output = PyBytes(dns.stdout)) <=> (dns.rc = 0)
           /\ (dns.output = FixedMessage) <=> (dns.rc # 0)

C7_Witness ==
    /\ dns.pc = "rendered"
    /\ dns.handler = "solution"
    /\ Len(dns.spawned) = 1
    /\ dns.rc = 1
    /\ dns.stdout = "Server: 8.8.8.8"
    /\ dns.output = FixedMessage

(***************************************************************************)
(* Properties of the photo album application (checked under Spec, the     *)
(* counter under SpecConcurrent).                                          *)
(***************************************************************************)
SearchHandlers == {"search", "advanced", "xml", "yaml"}
NonBlankTerms == {t \in Terms : Len(t) > 0 /\ ~IsSpace(t)}
IsPhotoQuery(q) == q.api \in {"raw", "filter"}

\* A search field that is absent, empty or whitespace-only.
Blank(v) ==
    \/ v.t = "NoneType"
    \/ v.t = "str" /\ \A i \in 1..Len(v.s) : v.s[i] = " "

\* The text the handler of worker p issues when term t stands where its
\* request carried a term.
TextWithTerm(p, t) ==
    LET r == w[p].req
        sub(v) == IF Blank(v) THEN YNone ELSE YStr(t)
    IN CASE w[p].handler = "search" -> RawSearchSQL(t).text
         [] w[p].handler = "advanced" ->
              OrmFilter(sub(r.name), sub(r.description),
                        IF Blank(r.uploaded_at) THEN 0
                        ELSE get_upload_period(r.uploaded_at.s), FALSE).text
         [] OTHER -> OrmFilter(YStr(t), YNone, 0, TRUE).text

\* C4: in all four search handlers the text of the photo query is the same
\* whatever the term: the term is only ever a bound parameter.
C4_QueryTextIndependentOfTerm ==
    \A p \in Workers :
        (w[p].pc = "done" /\ w[p].handler \in SearchHandlers) =>
            \A i \in 1..Len(w[p].queries) :
                IsPhotoQuery(w[p].queries[i]) =>
                    \A t \in NonBlankTerms :
                        w[p].queries[i].text = TextWithTerm(p, t)

\* C5 as stated: the XML handler parses with DTDs, entity declarations and
\* external resources forbidden, and answers every payload that declares a
\* DOCTYPE or an ENTITY with HTTP 400 and an error body, issuing no storage
\* query.
C5_DoctypeRejected ==
    \A p \in Workers :
        (w[p].pc = "done" /\ w[p].handler = "xml") =>
            /\ w[p].parser.made
            /\ w[p].parser.forbid_dtd
            /\ w[p].parser.forbid_entities
            /\ w[p].parser.forbid_external
            /\ (w[p].req.xml.doctype \/ w[p].req.xml.entity) =>
                  /\ w[p].status = 400
                  /\ w[p].body = "error"
                  /\ w[p].queries = <<>>
                  /\ w[p].photos = {}

\* C5 as amended: a POST the rate limiter lets through is parsed with DTDs,
\* entity declarations and external resources forbidden, and is answered
\* with HTTP 400 and an error body when its payload declares a DOCTYPE or an
\* ENTITY; a POST the rate limiter refuses is answered 403 with no parser
\* made; in neither case is a storage query issued for such a payload.
C5_DoctypeRejectedUnlessRateLimited ==
    \A p \in Workers :
        (w[p].pc = "done" /\ w[p].handler = "xml") =>
            IF w[p].limited
            THEN /\ w[p].status = 403
                 /\ ~w[p].parser.made
                 /\ w[p].queries = <<>>
                 /\ w[p].photos = {}
            ELSE /\ w[p].parser.made
                 /\ w[p].parser.forbid_dtd
                 /\ w[p].parser.forbid_entities
                 /\ w[p].parser.forbid_external
                 /\ (w[p].req.xml.doctype \/ w[p].req.xml.entity) =>
                       /\ w[p].status = 400
                       /\ w[p].body = "error"
                       /\ w[p].queries = <<>>
                       /\ w[p].photos = {}

C5_Witness ==
    \E p \in Workers :
        /\ w[p].pc = "done"
        /\ w[p].handler = "xml"
        /\ ~w[p].limited
        /\ w[p].req.xml.doctype
        /\ ~w[p].req.xml.entity
        /\ w[p].req.xml.malformed = "no"
        /\ w[p].req.xml.has_query
        /\ w[p].req.xml.text = YStr(<<"x">>)
        /\ w[p].status = 400

\* C6: every POST to the XML or YAML endpoint ends as HTTP 200 with a photo
\* list (the extracted query a plain string or absent) or as HTTP 400 with
\* an error body; no exception leaves the handler.
C6_Only200Or400 ==
    \A p \in Workers :
        (w[p].pc = "done" /\ w[p].handler \in {"xml", "yaml"}) =>
            \/ /\ w[p].status = 200
               /\ w[p].body = "photos"
               /\ w[p].req.xml.text.t \in {"str", "NoneType"}
               /\ w[p].req.yaml.query.t \in {"str", "NoneType"}
            \/ /\ w[p].status = 400
               /\ w[p].body = "error"

\* The requests C8 speaks of: every search field blank (for the advanced
\* search, uploaded_at naming none of the three periods).
AllFieldsBlank(p) ==
    LET r == w[p].req
    IN CASE w[p].handler = "search" -> Blank(r.q)
         [] w[p].handler = "advanced" ->
              /\ Blank(r.name)
              /\ Blank(r.description)
              /\ r.uploaded_at.s \notin {<<"hours">>, <<"week">>, <<"month">>}
         [] w[p].handler = "xml" -> Blank(r.xml.text)
         [] w[p].handler = "yaml" -> Blank(r.yaml.query)
         [] OTHER -> FALSE

\* C8 as stated: with every search field blank, no storage query at all is
\* issued and the photo list is empty.
C8_NoStorageQueryWhenBlank ==
    \A p \in Workers :
        (w[p].pc = "done" /\ w[p].handler \in SearchHandlers /\ AllFieldsBlank(p))
            => (w[p].queries = <<>> /\ w[p].photos = {})

\* C8 as amended: with every search field blank, no photo query is issued
\* and the response carries no photos; the one storage access left is
\* SearchPhotosFormView's get_or_create of an authenticated requester's
\* home album.
C8_NoPhotoQueryWhenBlank ==
    \A p \in Workers :
        (w[p].pc = "done" /\ w[p].handler \in SearchHandlers /\ AllFieldsBlank(p))
            => /\ \A i \in 1..Len(w[p].queries) :
                     /\ ~IsPhotoQuery(w[p].queries[i])
                     /\ w[p].handler = "search"
                     /\ w[p].req.user # Anonymous
                     /\ w[p].queries[i] = GetOrCreateHomeAlbum(w[p].req.user)
               /\ w[p].photos = {}

C8_Witness ==
    \E p \in Workers :
        /\ w[p].pc = "done"
        /\ w[p].handler = "search"
        /\ w[p].req.user = "alice"
        /\ w[p].req.q = YStr(<<" ">>)
        /\ w[p].queries = <<GetOrCreateHomeAlbum("alice")>>
        /\ w[p].photos = {}

\* C9: a photo that is not public is disclosed to its owner only: the photo
\* views, the link views and the advanced, XML and YAML searches return
\* only photos that are public or the requester's own, or answer NotFound.
DisclosureHandlers ==
    {"photo", "link", "publink", "userphotos", "advanced", "xml", "yaml"}

C9_PrivatePhotosStayPrivate ==
    \A p \in Workers :
        (w[p].pc = "done" /\ w[p].handler \in DisclosureHandlers) =>
            /\ \A ph \in w[p].photos :
                  photos[ph].is_public \/ photos[ph].owner = w[p].req.user
            /\ w[p].status = 404 => w[p].photos = {}

C9_Witness ==
    \E p \in Workers :
        /\ w[p].pc = "done"
        /\ w[p].handler = "userphotos"
        /\ w[p].req.user = "bob"
        /\ w[p].req.username = "alice"
        /\ w[p].photos = {1}

\* C10: whatever the interleaving, a photo's views counter is its initial
\* value plus the number of completed requests by others than the owner
\* made while it was public.
C10_ViewsCountCompletedRequests ==
    \A ph \in PhotoIds : views[ph] = InitialViews(ph) + hits[ph]

====
